---- MODULE Spec2Model ----
(***************************************************************************)
(* Survivor Science Podcast Archive: the static-site generator build.js    *)
(* and its companion client script js/main.js.                             *)
(*                                                                         *)
(* A JavaScript string is a sequence of one-character strings, so that     *)
(* every regular-expression replacement of the source is computed on the   *)
(* characters, as the source computes it.                                  *)
(***************************************************************************)
EXTENDS Integers, Sequences, FiniteSets, TLC

VARIABLES
    input,        \* text utilities: the argument handed to the function
    maxLen,       \* text utilities: truncate's maxLen argument
    fn,           \* text utilities: the function applied ("none" before)
    output,       \* text utilities: the function's return value
    pc,           \* build(): the step the build is at
    rss,          \* the feed document: [image, items in document order]
    podcastMeta,  \* build(): podcastMeta (the image field)
    episodes,     \* build(): the sorted episode collection
    artworkFile,  \* filesystem: images/podcast-artwork.jpg exists
    tree,         \* filesystem: the pages written so far
    cursor,       \* build(): position of the episode-page loop in episodes
    steps,        \* the steps the run has performed, in order, with outcome
    exitCode,     \* process exit code: -1 while running, then 0 or 1
    runNo,        \* which run of the build this is: the first or the second
    afterFirst,   \* filesystem as the first run left it (second run only)
    sortEngine,   \* the algorithm behind Array.prototype.sort in this node
    item,         \* parseEpisode: the item handed to it
    parsed,       \* parseEpisode: the episode returned (none before the call)
    fetcher,      \* fetch: "fetchURL" or "fetchBinary"
    requested,    \* fetch: the URL the caller asked for
    url,          \* fetch: the URL of the request in flight
    response,     \* fetch: what came back for that request (none yet)
    promise,      \* fetch: the caller's promise
    searchValue,  \* main.js: the value of the search box
    cards,        \* main.js: the episode cards of the grid
    noResults,    \* main.js: style.display of the "no results" placeholder
    navOpen,      \* main.js: .nav-links has the class "open"
    ariaExpanded, \* main.js: the aria-expanded attribute of .nav-toggle
    clicks        \* main.js: the targets of the clicks so far, in order

textVars == <<input, maxLen, fn, output>>
runVars == <<runNo, afterFirst, sortEngine>>
buildVars == <<pc, rss, podcastMeta, episodes, artworkFile, tree, cursor,
               steps, exitCode, runVars>>
parseVars == <<item, parsed>>
fetchVars == <<fetcher, requested, url, response, promise>>
searchVars == <<searchValue, cards, noResults>>
navVars == <<navOpen, ariaExpanded, clicks>>

vars == <<textVars, buildVars, parseVars, fetchVars, searchVars, navVars>>

(***************************************************************************)
(* Bounds of the model.                                                    *)
(***************************************************************************)
MaxPieces == 3        \* a text is a concatenation of at most MaxPieces pieces
MaxTruncLen == 5      \* truncate's maxLen ranges over 1..MaxTruncLen
MaxRichItems == 3     \* feeds of varied items have at most this many items
MaxPlainItems == 7    \* feeds of plain numbered items have at most this many
MaxPrefixDigits == 2  \* a title starts with at most this many digits
MaxCards == 2         \* the episodes grid holds at most this many cards

(***************************************************************************)
(* Characters and strings.                                                 *)
(***************************************************************************)
EmptyStr == << >>

Whitespace == {" ", "\t", "\n"}

IsWs(c) == c \in Whitespace

Digits == <<"0", "1", "2", "3", "4", "5", "6", "7", "8", "9">>

UpperChars == <<"A", "B", "C", "D", "E", "F", "G", "H", "I", "J", "K", "L", "M",
                "N", "O", "P", "Q", "R", "S", "T", "U", "V", "W", "X", "Y", "Z">>

LowerChars == <<"a", "b", "c", "d", "e", "f", "g", "h", "i", "j", "k", "l", "m",
                "n", "o", "p", "q", "r", "s", "t", "u", "v", "w", "x", "y", "z">>

IsDigit(c) == \E i \in 1..10 : Digits[i] = c

DigitVal(c) == (CHOOSE i \in 1..10 : Digits[i] = c) - 1

IsLower(c) == \E i \in 1..26 : LowerChars[i] = c

IsUpper(c) == \E i \in 1..26 : UpperChars[i] = c

toLowerChar(c) ==
    IF IsUpper(c) THEN LowerChars[CHOOSE i \in 1..26 : UpperChars[i] = c] ELSE c

toLowerCase(s) == [i \in 1..Len(s) |-> toLowerChar(s[i])]

Min(S) == CHOOSE x \in S : \A y \in S : x <= y

Max(S) == CHOOSE x \in S : \A y \in S : x >= y

\* s.substring(0, n)
Substring0(s, n) == SubSeq(s, 1, IF n < Len(s) THEN n ELSE Len(s))

\* s with its first n characters dropped
Drop(s, n) == SubSeq(s, n + 1, Len(s))

StartsWith(s, p) == Len(s) >= Len(p) /\ SubSeq(s, 1, Len(p)) = p

\* s.replace(/pat/g, rep) for a literal pattern: leftmost, non-overlapping
RECURSIVE ReplaceAll(_, _, _)
ReplaceAll(s, pat, rep) ==
    IF Len(s) < Len(pat) \/ s = EmptyStr THEN s
    ELSE IF StartsWith(s, pat)
         THEN rep \o ReplaceAll(Drop(s, Len(pat)), pat, rep)
         ELSE <<s[1]>> \o ReplaceAll(Tail(s), pat, rep)

\* s.trim()
RECURSIVE TrimStart(_)
TrimStart(s) ==
    IF s # EmptyStr /\ IsWs(s[1]) THEN TrimStart(Tail(s)) ELSE s

RECURSIVE TrimEnd(_)
TrimEnd(s) ==
    IF s # EmptyStr /\ IsWs(s[Len(s)]) THEN TrimEnd(SubSeq(s, 1, Len(s) - 1)) ELSE s

Trim(s) == TrimEnd(TrimStart(s))

\* s.replace(/<[^>]+>/g, ''): a tag is "<", one or more characters other
\* than ">", and the first ">" after them
RECURSIVE StripTags(_)
StripTags(s) ==
    IF s = EmptyStr THEN s
    ELSE LET closers == {j \in 3..Len(s) : s[j] = ">"}
         IN IF s[1] = "<" /\ Len(s) >= 3 /\ s[2] # ">" /\ closers # {}
            THEN StripTags(Drop(s, Min(closers)))
            ELSE <<s[1]>> \o StripTags(Tail(s))

\* String(n) for an integer n
RECURSIVE NatToStr(_)
NatToStr(n) ==
    IF n < 10 THEN <<Digits[n + 1]>>
    ELSE NatToStr(n \div 10) \o <<Digits[(n % 10) + 1]>>

IntToStr(n) == IF n < 0 THEN <<"-">> \o NatToStr(-n) ELSE NatToStr(n)

(***************************************************************************)
(* parseInt(string, radix): leading whitespace is skipped, an optional     *)
(* sign is read, then the longest run of digits; NaN when there is none.   *)
(* Without a radix a "0x" prefix selects base 16.                          *)
(***************************************************************************)
HexLetters == <<"a", "b", "c", "d", "e", "f">>

IsHexDigit(c) == IsDigit(c) \/ \E i \in 1..6 : HexLetters[i] = toLowerChar(c)

HexVal(c) ==
    IF IsDigit(c) THEN DigitVal(c)
    ELSE 9 + (CHOOSE i \in 1..6 : HexLetters[i] = toLowerChar(c))

RECURSIVE DigitRun(_, _)
DigitRun(s, radix) ==
    IF s # EmptyStr /\ (IF radix = 16 THEN IsHexDigit(s[1]) ELSE IsDigit(s[1]))
    THEN <<s[1]>> \o DigitRun(Tail(s), radix)
    ELSE EmptyStr

RECURSIVE DigitsValue(_, _)
DigitsValue(ds, radix) ==
    IF ds = EmptyStr THEN 0
    ELSE DigitsValue(SubSeq(ds, 1, Len(ds) - 1), radix) * radix
         + (IF radix = 16 THEN HexVal(ds[Len(ds)]) ELSE DigitVal(ds[Len(ds)]))

NaN == [nan |-> TRUE, val |-> 0]

Num(n) == [nan |-> FALSE, val |-> n]

\* the number a digit run stands for; NaN when the run is empty
DigitsToNumber(ds, r, neg) ==
    IF ds = EmptyStr THEN NaN
    ELSE Num(IF neg THEN -DigitsValue(ds, r) ELSE DigitsValue(ds, r))

\* what follows the sign: a "0x" prefix selects base 16 when the radix is
\* 16 or absent
ParseUnsigned(u, radix, neg) ==
    IF radix \in {0, 16} /\ Len(u) >= 2 /\ u[1] = "0" /\ u[2] \in {"x", "X"}
    THEN DigitsToNumber(DigitRun(Drop(u, 2), 16), 16, neg)
    ELSE IF radix = 0 THEN DigitsToNumber(DigitRun(u, 10), 10, neg)
    ELSE DigitsToNumber(DigitRun(u, radix), radix, neg)

\* what follows the leading whitespace: an optional sign
ParseSigned(t, radix) ==
    IF t # EmptyStr /\ t[1] \in {"-", "+"}
    THEN ParseUnsigned(Tail(t), radix, t[1] = "-")
    ELSE ParseUnsigned(t, radix, FALSE)

\* radix 0 stands for a call without the radix argument
parseInt(str, radix) == ParseSigned(TrimStart(str), radix)

\* a % b of JavaScript: the result has the sign of a
JsRem(a, b) == IF a >= 0 THEN a % b ELSE -((-a) % b)

SecondsPerHour == 3600

SecondsPerMinute == 60

\* the rendering of h hours and m minutes
HoursMinutes(h, m) ==
    IF h > 0 THEN IntToStr(h) \o <<"h", " ">> \o IntToStr(m) \o <<"m">>
    ELSE IntToStr(m) \o <<" ", "m", "i", "n">>

\* the branches of formatDuration on s = parseInt(seconds, 10)
DurationOf(seconds, s) ==
    IF s.nan THEN seconds
    ELSE HoursMinutes(s.val \div SecondsPerHour,
                      JsRem(s.val, SecondsPerHour) \div SecondsPerMinute)

formatDuration(seconds) == DurationOf(seconds, parseInt(seconds, 10))

(***************************************************************************)
(* Text utilities of the templates.                                        *)
(***************************************************************************)
Amp == <<"&">>
Lt == <<"<">>
Gt == <<">">>
Quot == <<"\"">>
Apos == <<"'">>
EntAmp == <<"&", "a", "m", "p", ";">>
EntLt == <<"&", "l", "t", ";">>
EntGt == <<"&", "g", "t", ";">>
EntQuot == <<"&", "q", "u", "o", "t", ";">>
EntNbsp == <<"&", "n", "b", "s", "p", ";">>
EntApos == <<"&", "#", "3", "9", ";">>
Ellipsis == <<".", ".", ".">>

escapeHtml(text) ==
    ReplaceAll(ReplaceAll(ReplaceAll(ReplaceAll(text, Amp, EntAmp),
        Lt, EntLt), Gt, EntGt), Quot, EntQuot)

stripHtml(text) ==
    ReplaceAll(ReplaceAll(ReplaceAll(ReplaceAll(ReplaceAll(ReplaceAll(
        StripTags(text), EntNbsp, <<" ">>), EntAmp, Amp), EntLt, Lt),
        EntGt, Gt), EntApos, Apos), EntQuot, Quot)

\* the fan-mail prefix of /^Send us a text\s*/i, lowercased
SendUsAText == <<"s", "e", "n", "d", " ", "u", "s", " ", "a", " ", "t", "e", "x", "t">>

cleanDescription(text) ==
    IF StartsWith(toLowerCase(text), SendUsAText)
    THEN TrimStart(Drop(text, Len(SendUsAText)))
    ELSE text

\* s.replace(/\s+\S*$/, ''): the leftmost match starts at the first
\* character of the last run of whitespace; without whitespace nothing matches
TrimLastWord(s) ==
    LET ws == {i \in 1..Len(s) : IsWs(s[i])}
    IN IF ws = {} THEN s
       ELSE LET last == Max(ws)
                start == Min({i \in 1..last : \A j \in i..last : IsWs(s[j])})
            IN SubSeq(s, 1, start - 1)

\* a truncate whose length test is strict
truncate_strict(text, maxLength) ==
    LET plain == cleanDescription(stripHtml(text))
    IN IF Len(plain) < maxLength THEN plain
       ELSE TrimLastWord(Substring0(plain, maxLength)) \o Ellipsis

truncate(text, maxLength) ==
    LET plain == cleanDescription(stripHtml(text))
    IN IF Len(plain) <= maxLength THEN plain
       ELSE TrimLastWord(Substring0(plain, maxLength)) \o Ellipsis

CDataOpen == <<"<", "!", "[", "C", "D", "A", "T", "A", "[">>
CDataClose == <<"]", "]", ">">>

\* the index at which pat first occurs in s, 0 when it does not
IndexOf(s, pat) ==
    LET at == {i \in 1..(Len(s) - Len(pat) + 1) : SubSeq(s, i, i + Len(pat) - 1) = pat}
    IN IF at = {} THEN 0 ELSE Min(at)

\* /<!\[CDATA\[([\s\S]*?)\]\]>/: the first opener that a closer follows,
\* and the first closer after it
getCDATA(text) ==
    LET open == IndexOf(text, CDataOpen)
        rest == Drop(text, open + Len(CDataOpen) - 1)
        close == IndexOf(rest, CDataClose)
    IN IF open # 0 /\ close # 0
       THEN Trim(SubSeq(rest, 1, close - 1))
       ELSE Trim(StripTags(text))

IsAlnumLower(c) == IsLower(c) \/ IsDigit(c)

\* s.replace(/[^a-z0-9]+/g, '-')
RECURSIVE CollapseNonAlnum(_)
CollapseNonAlnum(s) ==
    IF s = EmptyStr THEN s
    ELSE IF IsAlnumLower(s[1]) THEN <<s[1]>> \o CollapseNonAlnum(Tail(s))
    ELSE LET run == Min({i \in 1..(Len(s) + 1) : i > Len(s) \/ IsAlnumLower(s[i])})
         IN <<"-">> \o CollapseNonAlnum(Drop(s, run - 1))

\* s.replace(/(^-|-$)/g, '')
TrimEdgeHyphens(s) ==
    LET a == IF s # EmptyStr /\ s[1] = "-" THEN Tail(s) ELSE s
    IN IF a # EmptyStr /\ a[Len(a)] = "-" THEN SubSeq(a, 1, Len(a) - 1) ELSE a

slugify(title, episode) ==
    IF episode # EmptyStr THEN episode
    ELSE TrimEdgeHyphens(CollapseNonAlnum(toLowerCase(title)))

(***************************************************************************)
(* parseEpisode.  An item of the feed is the record of what getTagContent  *)
(* and getAttr return for it: title and description are the raw tag        *)
(* contents, pubDate is the value of new Date(pubDate) (NaN for an invalid *)
(* date, else a timestamp), image is the itunes:image href.                *)
(***************************************************************************)
\* a number prefix that needs no dot
NumberPrefixLen_noDot(title) ==
    LET ds == DigitRun(title, 10)
    IN IF ds # EmptyStr THEN Len(ds) + 1 ELSE 0

\* the length of the match of /^\d+\./ in title, 0 when there is none
NumberPrefixLen(title) ==
    LET ds == DigitRun(title, 10)
    IN IF ds # EmptyStr /\ Len(title) > Len(ds) /\ title[Len(ds) + 1] = "."
       THEN Len(ds) + 1 ELSE 0

parseEpisode(itemXml) ==
    LET title == getCDATA(itemXml.title)
        n == NumberPrefixLen(title)
        episodeNum == IF itemXml.episode # EmptyStr THEN itemXml.episode
                      ELSE IF n > 0 THEN SubSeq(title, 1, n - 1)
                      ELSE EmptyStr
    IN [ title |-> IF n > 0 THEN TrimStart(Drop(title, n)) ELSE title,
         fullTitle |-> title,
         description |-> getCDATA(itemXml.description),
         date |-> itemXml.pubDate,
         duration |-> formatDuration(itemXml.duration),
         episode |-> episodeNum,
         episodeImage |-> itemXml.image ]

(***************************************************************************)
(* The sort of build().  Array.prototype.sort calls the comparator and     *)
(* takes a NaN result as +0.  With a consistent comparator every engine    *)
(* leaves the stable sorted order; the comparator of build() is not        *)
(* consistent when a date is invalid, and then the order depends on the    *)
(* engine's algorithm.  The two algorithms node has used for arrays of     *)
(* this size are modelled: binary insertion sort after run detection       *)
(* (TimSort below its minimum run length), and plain insertion sort.       *)
(***************************************************************************)
\* NaN replaced by 0: the "|| 0" of the comparator (0 || 0 is 0 too), and
\* what sort does with a NaN result
NaNToZero(n) == IF n.nan THEN 0 ELSE n.val

\* parseInt(a.episode) || 0
EpisodeNumber(ep) == NaNToZero(parseInt(ep.episode, 0))

\* the comparator's return value for the numbers numA and numB:
\* b.date - a.date is NaN when either date is
CompareNumbered(a, numA, b, numB) ==
    IF numA # numB THEN Num(numB - numA)
    ELSE IF a.date.nan \/ b.date.nan THEN NaN
    ELSE Num(b.date.val - a.date.val)

episodeComparator(a, b) ==
    CompareNumbered(a, EpisodeNumber(a), b, EpisodeNumber(b))

\* SortCompare: NaN is +0
SortCompare(a, b) == NaNToZero(episodeComparator(a, b))

Range(f) == {f[i] : i \in DOMAIN f}

Reverse(arr) == [i \in 1..Len(arr) |-> arr[Len(arr) + 1 - i]]

\* the length of the run the array starts with: strictly descending when
\* the second element sorts before the first, else non-descending
RunLength(arr) ==
    IF Len(arr) < 2 THEN Len(arr)
    ELSE LET desc == SortCompare(arr[2], arr[1]) < 0
             InRun(i) == IF desc THEN SortCompare(arr[i], arr[i - 1]) < 0
                         ELSE SortCompare(arr[i], arr[i - 1]) >= 0
         IN Max({r \in 2..Len(arr) : \A i \in 3..r : InRun(i)})

\* the first r elements of arr reversed in place
ReverseRange(arr, r) == Reverse(SubSeq(arr, 1, r)) \o SubSeq(arr, r + 1, Len(arr))

\* the array with its leading run made ascending
MakeRun(arr) ==
    IF Len(arr) >= 2 /\ SortCompare(arr[2], arr[1]) < 0
    THEN ReverseRange(arr, RunLength(arr))
    ELSE arr

\* the number of elements of arr[1..right] the pivot goes after, by
\* binary search from left
RECURSIVE BinarySearch(_, _, _, _)
BinarySearch(arr, pivot, left, right) ==
    IF left >= right THEN left
    ELSE LET mid == left + ((right - left) \div 2)
         IN IF SortCompare(pivot, arr[mid + 1]) < 0
            THEN BinarySearch(arr, pivot, left, mid)
            ELSE BinarySearch(arr, pivot, mid + 1, right)

\* arr[start..] inserted one by one into the sorted arr[1..start-1]
\* arr[start] moved down to sit after the first at elements
MoveTo(arr, start, at) ==
    SubSeq(arr, 1, at) \o <<arr[start]>> \o SubSeq(arr, at + 1, start - 1)
    \o SubSeq(arr, start + 1, Len(arr))

RECURSIVE BinaryInsertionSort(_, _)
BinaryInsertionSort(arr, start) ==
    IF start > Len(arr) THEN arr
    ELSE BinaryInsertionSort(
             MoveTo(arr, start, BinarySearch(arr, arr[start], 0, start - 1)),
             start + 1)

TimSort(arr) == BinaryInsertionSort(MakeRun(arr), RunLength(arr) + 1)

\* x moved down from the end past the elements that sort after it
RECURSIVE InsertFromEnd(_, _)
InsertFromEnd(sorted, x) ==
    IF sorted # << >> /\ SortCompare(sorted[Len(sorted)], x) > 0
    THEN InsertFromEnd(SubSeq(sorted, 1, Len(sorted) - 1), x)
         \o <<sorted[Len(sorted)]>>
    ELSE Append(sorted, x)

RECURSIVE InsertionSort(_)
InsertionSort(arr) ==
    IF arr = << >> THEN arr
    ELSE InsertFromEnd(InsertionSort(SubSeq(arr, 1, Len(arr) - 1)), arr[Len(arr)])

Engines == {"timsort", "insertion"}

\* arr.sort(comparator) as the engine's algorithm leaves it
SortWith(engine, arr) ==
    IF engine = "timsort" THEN TimSort(arr) ELSE InsertionSort(arr)

\* the engines to tell apart on arr: where both algorithms leave the same
\* order, one engine stands for both
EnginesFor(arr) ==
    {e \in Engines : e = "timsort" \/ SortWith(e, arr) # SortWith("timsort", arr)}

(***************************************************************************)
(* Templates.  A page is the record of the places where its template       *)
(* interpolates feed data; the literal markup around them is left out.     *)
(* A URL or path is an atomic string; a link to an episode page is the     *)
(* pair of its directory prefix and the interpolated file stem.            *)
(***************************************************************************)
RecentGridSize == 6

SidebarSize == 10

HeroDescLen == 250

CardDescLen == 180

MetaDescLen == 160

\* arr.slice(0, n)
Slice0(arr, n) == SubSeq(arr, 1, IF n < Len(arr) THEN n ELSE Len(arr))

\* `episodes/${ep.episode}.html`
EpisodeHref(dir, ep) == [dir |-> dir, stem |-> ep.episode]

\* `${ep.episode ? ep.episode + '. ' : ''}`
NumberLabel(ep) ==
    IF ep.episode # EmptyStr THEN ep.episode \o <<".", " ">> ELSE EmptyStr

\* sidebarHTML: dir is "episodes/", or "" once generateEpisodePage has
\* replaced href="episodes/ by href="
sidebarHTML(eps, dir) ==
    LET recentEps == Slice0(eps, SidebarSize)
    IN [i \in 1..Len(recentEps) |->
          [ href |-> EpisodeHref(dir, recentEps[i]),
            label |-> NumberLabel(recentEps[i]),
            title |-> recentEps[i].title ]]

\* an image source without the fallback
ImageOr_noFallback(ep, fallback) == ep.episodeImage

\* ep.episodeImage || fallback
ImageOr(ep, fallback) ==
    IF ep.episodeImage # "" THEN ep.episodeImage ELSE fallback

episodeCardHTML(ep) ==
    [ href |-> EpisodeHref("episodes/", ep),
      img |-> ImageOr(ep, "images/podcast-artwork.jpg"),
      alt |-> escapeHtml(ep.fullTitle),
      label |-> NumberLabel(ep),
      title |-> escapeHtml(ep.title),
      desc |-> escapeHtml(truncate(ep.description, CardDescLen)) ]

\* a grid that is not capped
HomeRecent_all(eps) == eps

\* const recent = episodes.slice(0, 6)
HomeRecent(eps) == Slice0(eps, RecentGridSize)

\* generateHomePage, for a non-empty collection (latest = episodes[0])
generateHomePage(eps) ==
    LET latest == eps[1]
        recent == HomeRecent(eps)
    IN [ hero |-> [ label |-> NumberLabel(latest),
                    title |-> escapeHtml(latest.title),
                    desc |-> escapeHtml(truncate(latest.description, HeroDescLen)),
                    href |-> EpisodeHref("episodes/", latest) ],
         grid |-> [i \in 1..Len(recent) |-> episodeCardHTML(recent[i])],
         sidebar |-> sidebarHTML(eps, "episodes/") ]

generateEpisodesPage(eps) ==
    [ grid |-> [i \in 1..Len(eps) |-> episodeCardHTML(eps[i])] ]

\* allEpisodes.findIndex(e => e.episode === ep.episode), counted from 1
EpIndex(ep, allEpisodes) ==
    Min({j \in 1..Len(allEpisodes) : allEpisodes[j].episode = ep.episode})

\* a neighbour index that is off by one
PrevIndex_self(epIndex) == epIndex

\* allEpisodes[epIndex + 1], the older neighbour
PrevIndex(epIndex) == epIndex + 1

\* allEpisodes[epIndex - 1], the newer neighbour
NextIndex(epIndex) == epIndex - 1

\* `${other ? <a href="${other.episode}.html"> : '<span></span>'}` for
\* other = allEpisodes[at], which is undefined outside the array
NavLink(allEpisodes, at) ==
    IF at \in 1..Len(allEpisodes)
    THEN [present |-> TRUE, href |-> EpisodeHref("", allEpisodes[at])]
    ELSE [present |-> FALSE, href |-> [dir |-> "", stem |-> EmptyStr]]

\* ep.description.replace(/^Send us a text/i, '')
ShowNotes(description) ==
    IF StartsWith(toLowerCase(description), SendUsAText)
    THEN Drop(description, Len(SendUsAText)) ELSE description

\* generateEpisodePage(ep, episodes, allEpisodes) for ep = allEpisodes[i];
\* "of" records i and is no part of the page
generateEpisodePage(i, allEpisodes) ==
    LET ep == allEpisodes[i]
        epIndex == EpIndex(ep, allEpisodes)
    IN [ of |-> i,
         headTitle |-> escapeHtml(ep.fullTitle),
         metaDesc |-> escapeHtml(truncate(ep.description, MetaDescLen)),
         ogTitle |-> escapeHtml(cleanDescription(stripHtml(ep.fullTitle))),
         ogImage |-> ImageOr(ep, "images/podcast-artwork.jpg"),
         label |-> NumberLabel(ep),
         title |-> escapeHtml(ep.title),
         duration |-> ep.duration,
         imgSrc |-> ImageOr(ep, "../images/podcast-artwork.jpg"),
         imgAlt |-> escapeHtml(ep.fullTitle),
         showNotes |-> ShowNotes(ep.description),
         prev |-> NavLink(allEpisodes, PrevIndex(epIndex)),
         next |-> NavLink(allEpisodes, NextIndex(epIndex)),
         sidebar |-> sidebarHTML(allEpisodes, "") ]

\* a file name that is the number alone
PageFileStem_numberOnly(ep) == ep.episode

\* `${ep.episode || slugify(ep.title)}.html`, without the extension
PageFileStem(ep) ==
    IF ep.episode # EmptyStr THEN ep.episode ELSE slugify(ep.title, EmptyStr)

(***************************************************************************)
(* The feeds the build is run on.                                          *)
(***************************************************************************)
CData(body) == CDataOpen \o body \o CDataClose

EpisodeArt == "https://cdn.example/episode.jpg"

ChannelArt == "https://cdn.example/show.jpg"

Item(title, description, pubDate, duration, episode, image) ==
    [ title |-> title, description |-> description, pubDate |-> pubDate,
      duration |-> duration, episode |-> episode, image |-> image ]

\* items that differ in what they carry: an explicit number and an image,
\* the same number in the title only, markup in a CDATA title, no pubDate,
\* nothing but a title and an image
RichItems ==
    { Item(<<"T", "w", "o">>, CData(<<"<", "p", ">", "H", "i", "<", "/", "p", ">">>),
           Num(1), <<"3", "7", "2", "5">>, <<"2">>, EpisodeArt),
      Item(<<"2", ".", " ", "C", "d">>, <<"x", " ", "&", "a", "m", "p", ";", " ", "y">>,
           Num(3), <<"5", "9">>, EmptyStr, ""),
      Item(CData(<<"A", "<", "b", ">", "&", "\"", "q", "\"">>),
           CData(<<"S", "e", "n", "d", " ", "u", "s", " ", "a", " ", "t", "e", "x", "t",
                   " ", "<", "b", ">", "Q", "<", "/", "b", ">">>),
           Num(3), <<"4", "5", " ", "m", "i", "n">>, EmptyStr, ""),
      Item(<<"x", " ", "y">>, EmptyStr, NaN, EmptyStr, EmptyStr, ""),
      Item(<<"Z", "e", "d">>, <<"w">>, Num(1), <<"0">>, EmptyStr, EpisodeArt) }

RECURSIVE SeqsUpTo(_, _)
SeqsUpTo(S, n) ==
    IF n = 0 THEN {<< >>}
    ELSE LET shorter == SeqsUpTo(S, n - 1)
         IN shorter \cup {Append(q, x) : q \in shorter, x \in S}

PlainItem(k) ==
    Item(<<"E", "p">>, <<"d">>, Num(k), <<"6", "0">>, NatToStr(k), "")

\* n plain items numbered 1..n: newest first, oldest first, and rotated
PlainFeeds(n) ==
    { [i \in 1..n |-> PlainItem(n + 1 - i)],
      [i \in 1..n |-> PlainItem(i)],
      [i \in 1..n |-> PlainItem(((i + 1) % n) + 1)] }

FeedItems ==
    SeqsUpTo(RichItems, MaxRichItems)
    \cup UNION {PlainFeeds(n) : n \in (MaxRichItems + 1)..MaxPlainItems}

(***************************************************************************)
(* build(): fetch, parse and sort, artwork, the three pages, the episode   *)
(* pages; build().catch exits with code 1.                                 *)
(***************************************************************************)
EmptyTree(dir) ==
    [ index |-> << >>, episodes |-> << >>, about |-> << >>,
      episodesDir |-> dir, pages |-> << >> ]

Step(name, err) == [step |-> name, err |-> err]

\* the output directory: the pages and whether the artwork file exists
Snapshot(pages, artwork) == [tree |-> pages, artworkFile |-> artwork]

InitTextIdle ==
    /\ input = EmptyStr
    /\ maxLen = 0
    /\ fn = "none"
    /\ output = EmptyStr

InitParseIdle ==
    /\ item = Item(EmptyStr, EmptyStr, NaN, EmptyStr, EmptyStr, "")
    /\ parsed = << >>

Pending == [state |-> "pending"]

NoResponse == [kind |-> "none"]

InitFetchIdle ==
    /\ fetcher = "none"
    /\ requested = ""
    /\ url = ""
    /\ response = NoResponse
    /\ promise = Pending

InitSearchIdle ==
    /\ searchValue = EmptyStr
    /\ cards = << >>
    /\ noResults = "none"

\* the navigation as the page template renders it: the panel without the
\* class "open", the button without an aria-expanded attribute
InitNavIdle ==
    /\ navOpen = FALSE
    /\ ariaExpanded = "absent"
    /\ clicks = << >>

Init ==
    /\ pc = "fetch"
    /\ rss \in [image : {"", ChannelArt}, items : FeedItems]
    /\ podcastMeta = [image |-> ""]
    /\ episodes = << >>
    /\ artworkFile \in BOOLEAN
    /\ tree = EmptyTree(FALSE)
    /\ cursor = 0
    /\ steps = << >>
    /\ exitCode = -1
    /\ runNo = 1
    /\ afterFirst = Snapshot(EmptyTree(FALSE), FALSE)
    /\ sortEngine \in EnginesFor([i \in 1..Len(rss.items) |-> parseEpisode(rss.items[i])])
    /\ InitTextIdle
    /\ InitParseIdle
    /\ InitFetchIdle
    /\ InitSearchIdle
    /\ InitNavIdle

\* an error that is logged and passed over
Throw_goesOn(name, err) ==
    /\ steps' = Append(steps, Step(name, err))
    /\ pc' = "episodes"
    /\ exitCode' = exitCode

\* an error that reaches build().catch: logged, process.exit(1)
Throw_exitZero(name, err) ==
    /\ steps' = Append(steps, Step(name, err))
    /\ pc' = "failed"
    /\ exitCode' = 0

Throw(name, err) ==
    /\ steps' = Append(steps, Step(name, err))
    /\ pc' = "failed"
    /\ exitCode' = 1

Done(name, next) ==
    /\ steps' = Append(steps, Step(name, "none"))
    /\ pc' = next
    /\ exitCode' = exitCode

\* rssContent = await fetchURL(RSS_URL), or readFileSync of --file
FetchFeed ==
    /\ pc = "fetch"
    /\ Done("feed", "parse")
    /\ UNCHANGED <<rss, podcastMeta, episodes, artworkFile, tree, cursor>>
    /\ UNCHANGED <<runVars, textVars, parseVars, fetchVars, searchVars, navVars>>

FetchFeedError ==
    /\ pc = "fetch"
    /\ \E err \in {"fetch", "fs"} : Throw("feed", err)
    /\ UNCHANGED <<rss, podcastMeta, episodes, artworkFile, tree, cursor>>
    /\ UNCHANGED <<runVars, textVars, parseVars, fetchVars, searchVars, navVars>>

\* the channel fields are read from the text before the first <item>, so
\* a feed without items has no channel image
ParseFeed ==
    /\ pc = "parse"
    /\ podcastMeta' = [image |-> IF rss.items = << >> THEN "" ELSE rss.image]
    /\ episodes' = SortWith(sortEngine,
                            [i \in 1..Len(rss.items) |-> parseEpisode(rss.items[i])])
    /\ Done("parse", "artwork")
    /\ UNCHANGED <<rss, artworkFile, tree, cursor>>
    /\ UNCHANGED <<runVars, textVars, parseVars, fetchVars, searchVars, navVars>>

\* a download that does not look for the file
NeedsArtwork_always == podcastMeta.image # ""

\* podcastMeta.image && !fs.existsSync(artworkPath)
NeedsArtwork == podcastMeta.image # "" /\ ~artworkFile

SkipArtwork ==
    /\ pc = "artwork"
    /\ ~NeedsArtwork
    /\ Done("artworkSkip", "index")
    /\ UNCHANGED <<rss, podcastMeta, episodes, artworkFile, tree, cursor>>
    /\ UNCHANGED <<runVars, textVars, parseVars, fetchVars, searchVars, navVars>>

DownloadArtwork ==
    /\ pc = "artwork"
    /\ NeedsArtwork
    /\ artworkFile' = TRUE
    /\ Done("artwork", "index")
    /\ UNCHANGED <<rss, podcastMeta, episodes, tree, cursor>>
    /\ UNCHANGED <<runVars, textVars, parseVars, fetchVars, searchVars, navVars>>

\* fetchBinary rejects or writeFileSync throws: the catch block logs and
\* the build goes on
DownloadArtworkError ==
    /\ pc = "artwork"
    /\ NeedsArtwork
    /\ \E err \in {"fetch", "fs"} :
          /\ steps' = Append(steps, Step("artwork", err))
          /\ pc' = "index"
          /\ exitCode' = exitCode
    /\ UNCHANGED <<rss, podcastMeta, episodes, artworkFile, tree, cursor>>
    /\ UNCHANGED <<runVars, textVars, parseVars, fetchVars, searchVars, navVars>>

WriteIndex ==
    /\ pc = "index"
    /\ episodes # << >>
    /\ tree' = [tree EXCEPT !.index = <<generateHomePage(episodes)>>]
    /\ Done("index", "episodes")
    /\ UNCHANGED <<rss, podcastMeta, episodes, artworkFile, cursor>>
    /\ UNCHANGED <<runVars, textVars, parseVars, fetchVars, searchVars, navVars>>

\* generateHomePage reads latest.episode of an undefined latest (TypeError),
\* or writeFileSync throws
WriteIndexError ==
    /\ pc = "index"
    /\ IF episodes = << >> THEN Throw("index", "type") ELSE Throw("index", "fs")
    /\ UNCHANGED <<rss, podcastMeta, episodes, artworkFile, tree, cursor>>
    /\ UNCHANGED <<runVars, textVars, parseVars, fetchVars, searchVars, navVars>>

WriteEpisodes ==
    /\ pc = "episodes"
    /\ tree' = [tree EXCEPT !.episodes = <<generateEpisodesPage(episodes)>>]
    /\ Done("episodes", "about")
    /\ UNCHANGED <<rss, podcastMeta, episodes, artworkFile, cursor>>
    /\ UNCHANGED <<runVars, textVars, parseVars, fetchVars, searchVars, navVars>>

WriteAbout ==
    /\ pc = "about"
    /\ tree' = [tree EXCEPT !.about = <<"about">>]
    /\ Done("about", "mkdir")
    /\ UNCHANGED <<rss, podcastMeta, episodes, artworkFile, cursor>>
    /\ UNCHANGED <<runVars, textVars, parseVars, fetchVars, searchVars, navVars>>

\* if (!fs.existsSync(episodesDir)) fs.mkdirSync(episodesDir, ...)
MakeEpisodesDir ==
    /\ pc = "mkdir"
    /\ tree' = [tree EXCEPT !.episodesDir = TRUE]
    /\ cursor' = 1
    /\ Done("mkdir", "pages")
    /\ UNCHANGED <<rss, podcastMeta, episodes, artworkFile>>
    /\ UNCHANGED <<runVars, textVars, parseVars, fetchVars, searchVars, navVars>>

\* a write that leaves an existing file alone
WriteFile_keepFirst(files, name, content) == files @@ (name :> content)

\* fs.writeFileSync(path, content): the file is created or replaced
WriteFile(files, name, content) == (name :> content) @@ files

WriteEpisodePage ==
    /\ pc = "pages"
    /\ cursor <= Len(episodes)
    /\ tree' = [tree EXCEPT !.pages =
                   WriteFile(@, PageFileStem(episodes[cursor]),
                             generateEpisodePage(cursor, episodes))]
    /\ cursor' = cursor + 1
    /\ Done("page", "pages")
    /\ UNCHANGED <<rss, podcastMeta, episodes, artworkFile>>
    /\ UNCHANGED <<runVars, textVars, parseVars, fetchVars, searchVars, navVars>>

\* a failed write that is logged and passed over
WriteError_continues ==
    /\ pc \in {"episodes", "about"}
    /\ steps' = Append(steps, Step(pc, "fs"))
    /\ pc' = IF pc = "episodes" THEN "about" ELSE "mkdir"
    /\ UNCHANGED <<rss, podcastMeta, episodes, artworkFile, tree, cursor, exitCode>>
    /\ UNCHANGED <<runVars, textVars, parseVars, fetchVars, searchVars, navVars>>

\* writeFileSync or mkdirSync throws
WriteError ==
    /\ \/ pc \in {"episodes", "about"}
       \/ pc = "mkdir" /\ ~tree.episodesDir
       \/ pc = "pages" /\ cursor <= Len(episodes)
    /\ Throw(IF pc = "pages" THEN "page" ELSE pc, "fs")
    /\ UNCHANGED <<rss, podcastMeta, episodes, artworkFile, tree, cursor>>
    /\ UNCHANGED <<runVars, textVars, parseVars, fetchVars, searchVars, navVars>>

\* build() returns: the process ends with exit code 0
Finish ==
    /\ pc = "pages"
    /\ cursor > Len(episodes)
    /\ pc' = "done"
    /\ exitCode' = 0
    /\ UNCHANGED <<rss, podcastMeta, episodes, artworkFile, tree, cursor, steps>>
    /\ UNCHANGED <<runVars, textVars, parseVars, fetchVars, searchVars, navVars>>

\* the build is started again on the same feed and the same output
\* directory: a new process, with the files the first run left
RunAgain ==
    /\ pc = "done"
    /\ runNo = 1
    /\ runNo' = 2
    /\ afterFirst' = Snapshot(tree, artworkFile)
    /\ pc' = "fetch"
    /\ podcastMeta' = [image |-> ""]
    /\ episodes' = << >>
    /\ cursor' = 0
    /\ steps' = << >>
    /\ exitCode' = -1
    /\ UNCHANGED <<rss, artworkFile, tree, sortEngine>>
    /\ UNCHANGED <<textVars, parseVars, fetchVars, searchVars, navVars>>

Next ==
    \/ FetchFeed
    \/ FetchFeedError
    \/ ParseFeed
    \/ SkipArtwork
    \/ DownloadArtwork
    \/ DownloadArtworkError
    \/ WriteIndex
    \/ WriteIndexError
    \/ WriteEpisodes
    \/ WriteAbout
    \/ MakeEpisodesDir
    \/ WriteEpisodePage
    \/ WriteError
    \/ Finish
    \/ RunAgain

Spec == Init /\ [][Next]_vars

(***************************************************************************)
(* The text functions applied to inputs drawn from bounded sets.           *)
(***************************************************************************)
Pieces ==
    { <<"a", "b">>, <<"c">>, <<" ">>, <<"<", "b", ">">>,
      <<"&", "a", "m", "p", ";">>, <<"&", "l", "t", ";">>,
      <<"S", "e", "n", "d", " ", "u", "s", " ", "a", " ", "t", "e", "x", "t">>,
      <<"s", "e", "n", "d", " ", "U", "S", " ", "a", " ", "t", "e", "x", "t", " ">> }

RECURSIVE TextsOf(_)
TextsOf(n) ==
    IF n = 0 THEN {EmptyStr}
    ELSE LET shorter == TextsOf(n - 1)
         IN shorter \cup {t \o q : t \in shorter, q \in Pieces}

Texts == TextsOf(MaxPieces)

\* values of an <itunes:duration> tag, as getTagContent returns them (trimmed)
Durations ==
    { EmptyStr, <<"0">>, <<"5", "9">>, <<"6", "0">>, <<"3", "5", "9", "9">>,
      <<"3", "6", "0", "0">>, <<"3", "7", "2", "5">>, <<"7", "3", "2", "5">>,
      <<"4", "5", " ", "m", "i", "n">>, <<"0", "1", ":", "0", "2", ":", "0", "5">>,
      <<"1", "h", " ", "2", "m">>, <<"m", "i", "n">>, <<"-", "5">> }

Inputs == Texts \cup Durations

\* maxLen values: the short ones cut the texts, the long ones take a whole
\* text that starts with the fan-mail prefix
TruncLens == (1..MaxTruncLen) \cup {Len(SendUsAText) + MaxTruncLen}

InitBuildIdle ==
    /\ pc = "idle"
    /\ rss = [image |-> EmptyStr, items |-> << >>]
    /\ podcastMeta = [image |-> EmptyStr]
    /\ episodes = << >>
    /\ artworkFile = FALSE
    /\ tree = EmptyTree(FALSE)
    /\ cursor = 0
    /\ steps = << >>
    /\ exitCode = -1
    /\ runNo = 0
    /\ afterFirst = Snapshot(EmptyTree(FALSE), FALSE)
    /\ sortEngine = "timsort"

InitText ==
    /\ input \in Inputs
    /\ maxLen \in TruncLens
    /\ fn = "none"
    /\ output = EmptyStr
    /\ InitBuildIdle
    /\ InitParseIdle
    /\ InitFetchIdle
    /\ InitSearchIdle
    /\ InitNavIdle

ApplyTruncate ==
    /\ fn = "none"
    /\ fn' = "truncate"
    /\ output' = truncate(input, maxLen)
    /\ UNCHANGED <<input, maxLen>>
    /\ UNCHANGED <<buildVars, parseVars, fetchVars, searchVars, navVars>>

ApplyFormatDuration ==
    /\ fn = "none"
    /\ fn' = "formatDuration"
    /\ output' = formatDuration(input)
    /\ UNCHANGED <<input, maxLen>>
    /\ UNCHANGED <<buildVars, parseVars, fetchVars, searchVars, navVars>>

NextText == ApplyTruncate \/ ApplyFormatDuration

SpecText == InitText /\ [][NextText]_vars

(***************************************************************************)
(* parseEpisode applied to items whose title tag and itunes:episode tag    *)
(* are drawn from bounded sets.                                            *)
(***************************************************************************)
RECURSIVE DigitStrings(_)
DigitStrings(n) ==
    IF n = 0 THEN {EmptyStr}
    ELSE LET shorter == DigitStrings(n - 1)
         IN shorter \cup {Append(d, c) : d \in shorter, c \in {"4", "2"}}

\* digits, a dot or none, whitespace or none, and a rest
PrefixedTexts ==
    { d \o dot \o ws \o rest :
        d \in DigitStrings(MaxPrefixDigits),
        dot \in {EmptyStr, <<".">>},
        ws \in {EmptyStr, <<" ">>, <<" ", " ">>},
        rest \in {EmptyStr, <<"R", "t">>, <<"7", ".", "x">>, <<"a", " ", "1", ".">>} }

\* the content of a <title> tag as getTagContent returns it (trimmed):
\* plain text, or a CDATA section
TitleTags ==
    {s \in PrefixedTexts : Trim(s) = s} \cup {CData(s) : s \in PrefixedTexts}

ParseItems ==
    { Item(title, EmptyStr, NaN, EmptyStr, episode, "") :
        title \in TitleTags, episode \in {EmptyStr, <<"5">>} }

InitParse ==
    /\ item \in ParseItems
    /\ parsed = << >>
    /\ InitTextIdle
    /\ InitBuildIdle
    /\ InitFetchIdle
    /\ InitSearchIdle
    /\ InitNavIdle

ApplyParseEpisode ==
    /\ parsed = << >>
    /\ parsed' = <<parseEpisode(item)>>
    /\ UNCHANGED <<item, textVars, buildVars, fetchVars, searchVars, navVars>>

NextParse == ApplyParseEpisode

SpecParse == InitParse /\ [][NextParse]_vars

(***************************************************************************)
(* fetchURL and fetchBinary.  A call makes a request; the callback of      *)
(* client.get runs on the response.  On a redirect the function calls      *)
(* itself with the Location and hands the inner promise's outcome to the   *)
(* caller's promise, so the caller's promise is the one promise modelled   *)
(* and url is the URL of the innermost call.                               *)
(***************************************************************************)
AbsoluteUrls == {"https://feed.example/rss", "http://cdn.example/a", "https://cdn.example/b"}

\* a Location that is no absolute URL
RelativeUrl == "/moved"

Statuses == {200, 204, 301, 302, 404, 500}

\* a response: its status, its Location header ("" when it has none) and
\* whether the body arrives whole ("end") or the stream fails ("error")
HttpResponse(status, location, complete) ==
    [kind |-> "http", status |-> status, location |-> location, complete |-> complete]

\* the request fails before a response arrives
ConnectionError == [kind |-> "error"]

Responses ==
    { HttpResponse(s, l, c) :
        s \in Statuses, l \in {""} \cup AbsoluteUrls \cup {RelativeUrl}, c \in BOOLEAN }
    \cup {ConnectionError}

\* the document a server holds at u
BodyAt(u) == <<"body of", u>>

Resolved(value) == [state |-> "resolved", value |-> value]

Rejected(error) == [state |-> "rejected", error |-> error]

\* an error message that always names the URL
StatusError_withUrl(f, status, u) ==
    [name |-> "http", status |-> status, urls |-> <<u>>]

\* new Error(`HTTP ${res.statusCode} from ${url}`) in fetchURL,
\* new Error(`HTTP ${res.statusCode}`) in fetchBinary: the values the
\* message is made of
StatusError(f, status, u) ==
    [name |-> "http", status |-> status,
     urls |-> IF f = "fetchURL" THEN <<u>> ELSE << >>]

\* res.statusCode >= 300 && res.statusCode < 400 && res.headers.location
IsRedirect(r) ==
    r.kind = "http" /\ r.status >= 300 /\ r.status < 400 /\ r.location # ""

InitFetch ==
    /\ fetcher \in {"fetchURL", "fetchBinary"}
    /\ requested \in AbsoluteUrls
    /\ url = requested
    /\ response = NoResponse
    /\ promise = Pending
    /\ InitTextIdle
    /\ InitBuildIdle
    /\ InitParseIdle
    /\ InitSearchIdle
    /\ InitNavIdle

\* the server answers the request in flight, or the connection fails
Respond ==
    /\ promise = Pending
    /\ response = NoResponse
    /\ url \in AbsoluteUrls
    /\ response' \in Responses
    /\ UNCHANGED <<fetcher, requested, url, promise>>
    /\ UNCHANGED <<textVars, buildVars, parseVars, searchVars, navVars>>

\* client.get throws on a URL that is not absolute; the throw happens in
\* the executor of the inner promise, which rejects
InvalidUrl ==
    /\ promise = Pending
    /\ response = NoResponse
    /\ url \notin AbsoluteUrls
    /\ promise' = Rejected([name |-> "url"])
    /\ UNCHANGED <<fetcher, requested, url, response>>
    /\ UNCHANGED <<textVars, buildVars, parseVars, searchVars, navVars>>

\* return fetchURL(res.headers.location).then(resolve).catch(reject)
OnRedirect ==
    /\ promise = Pending
    /\ IsRedirect(response)
    /\ url' = response.location
    /\ response' = NoResponse
    /\ UNCHANGED <<fetcher, requested, promise>>
    /\ UNCHANGED <<textVars, buildVars, parseVars, searchVars, navVars>>

\* if (res.statusCode !== 200) return reject(new Error(...))
OnBadStatus ==
    /\ promise = Pending
    /\ response.kind = "http"
    /\ ~IsRedirect(response)
    /\ response.status # 200
    /\ promise' = Rejected(StatusError(fetcher, response.status, url))
    /\ UNCHANGED <<fetcher, requested, url, response>>
    /\ UNCHANGED <<textVars, buildVars, parseVars, searchVars, navVars>>

\* res.on('end', () => resolve(data))
OnEnd ==
    /\ promise = Pending
    /\ response.kind = "http"
    /\ ~IsRedirect(response)
    /\ response.status = 200
    /\ response.complete
    /\ promise' = Resolved(BodyAt(url))
    /\ UNCHANGED <<fetcher, requested, url, response>>
    /\ UNCHANGED <<textVars, buildVars, parseVars, searchVars, navVars>>

\* res.on('error', reject) and .on('error', reject)
OnError ==
    /\ promise = Pending
    /\ \/ response.kind = "error"
       \/ /\ response.kind = "http"
          /\ ~IsRedirect(response)
          /\ response.status = 200
          /\ ~response.complete
    /\ promise' = Rejected([name |-> "network"])
    /\ UNCHANGED <<fetcher, requested, url, response>>
    /\ UNCHANGED <<textVars, buildVars, parseVars, searchVars, navVars>>

NextFetch ==
    \/ Respond
    \/ InvalidUrl
    \/ OnRedirect
    \/ OnBadStatus
    \/ OnEnd
    \/ OnError

SpecFetch == InitFetch /\ [][NextFetch]_vars

\* every request is answered and every callback runs
SpecFetchFair == SpecFetch /\ WF_vars(NextFetch)

(***************************************************************************)
(* js/main.js: the episode search.  A card is the text of its title and    *)
(* description elements and its style.display; the placeholder is the      *)
(* style.display of #no-results, or "absent" on a page without it.         *)
(***************************************************************************)
Card(title, desc, display) == [title |-> title, desc |-> desc, display |-> display]

CardTexts ==
    { <<<<"S", "t", "r", "o", "k", "e">>, <<"a", " ", "B", "c">>>>,
      <<<<"7", ".", " ", "G", "o">>, <<"s", "T", "R">>>>,
      <<<<"B", "c">>, EmptyStr>>,
      <<EmptyStr, <<"n", "o">>>> }

\* the grids of 1..n cards as generateEpisodesPage renders them: every
\* card shown (a build that succeeds has at least one episode)
RECURSIVE CardRows(_)
CardRows(n) ==
    IF n = 1 THEN {<<Card(ct[1], ct[2], "")>> : ct \in CardTexts}
    ELSE LET shorter == CardRows(n - 1)
         IN shorter \cup {Append(row, Card(ct[1], ct[2], "")) : row \in shorter, ct \in CardTexts}

\* what the user may have typed
SearchValues ==
    { EmptyStr, <<" ">>, <<"b">>, <<"B", "C", " ">>, <<" ", "s", "t", "r">>,
      <<"a", " ", "b">>, <<"G", "o">>, <<"z", "z">> }

\* text.includes(query)
Includes(text, query) == query = EmptyStr \/ IndexOf(text, query) # 0

\* a match on the title alone
CardMatches_titleOnly(query, card) ==
    query = EmptyStr \/ Includes(toLowerCase(card.title), query)

\* !query || title.includes(query) || desc.includes(query)
CardMatches(query, card) ==
    \/ query = EmptyStr
    \/ Includes(toLowerCase(card.title), query)
    \/ Includes(toLowerCase(card.desc), query)

InitSearch ==
    /\ searchValue = EmptyStr
    /\ cards \in CardRows(MaxCards)
    /\ noResults \in {"none", "absent"}
    /\ InitNavIdle
    /\ InitTextIdle
    /\ InitBuildIdle
    /\ InitParseIdle
    /\ InitFetchIdle

\* the input event: the listener of the search box
OnSearchInput ==
    \E value \in SearchValues :
        LET query == Trim(toLowerCase(value))
            visibleCount == Cardinality({i \in 1..Len(cards) : CardMatches(query, cards[i])})
        IN /\ searchValue' = value
           /\ cards' = [i \in 1..Len(cards) |->
                           [cards[i] EXCEPT !.display =
                               IF CardMatches(query, cards[i]) THEN "" ELSE "none"]]
           /\ noResults' = IF noResults = "absent" THEN noResults
                           ELSE IF visibleCount = 0 THEN "" ELSE "none"
           /\ UNCHANGED <<textVars, buildVars, parseVars, fetchVars, navVars>>

NextSearch == OnSearchInput

SpecSearch == InitSearch /\ [][NextSearch]_vars

(***************************************************************************)
(* The mobile navigation of main.js: the click listener of the toggle      *)
(* button and the click listener of the document.                          *)
(***************************************************************************)
MaxClicks == 3

\* the elements of the page a click can land on without leaving the page:
\* the button, a bar inside the button, the panel, a link of the panel
\* that opens in a new tab, and the rest of the document
ClickTargets == {"toggle", "toggleBar", "links", "linksAnchor", "elsewhere"}

\* toggle.contains(e.target)
ToggleContains(target) == target \in {"toggle", "toggleBar"}

\* links.contains(e.target)
LinksContains(target) == target \in {"links", "linksAnchor"}

\* setAttribute turns the boolean into the string "true" or "false"
BooleanString(b) == IF b THEN "true" ELSE "false"

\* the listener of the toggle: flip the class, copy it to the attribute
OnToggleClick(nav) ==
    [open |-> ~nav.open, aria |-> BooleanString(~nav.open)]

\* the listener of the document: a click outside the button and the panel
\* removes the class and leaves the attribute as it is
OnDocumentClick(nav, target) ==
    IF ~ToggleContains(target) /\ ~LinksContains(target)
    THEN [nav EXCEPT !.open = FALSE]
    ELSE nav

\* one click: the listener of the button when the click is inside it, then
\* the listener of the document, which the event bubbles up to
Dispatch(nav, target) ==
    IF ToggleContains(target)
    THEN OnDocumentClick(OnToggleClick(nav), target)
    ELSE OnDocumentClick(nav, target)

Click(target) ==
    /\ navOpen' = Dispatch([open |-> navOpen, aria |-> ariaExpanded], target).open
    /\ ariaExpanded' = Dispatch([open |-> navOpen, aria |-> ariaExpanded], target).aria
    /\ clicks' = Append(clicks, target)
    /\ UNCHANGED <<textVars, buildVars, parseVars, fetchVars, searchVars>>

InitNav ==
    /\ InitNavIdle
    /\ InitTextIdle
    /\ InitBuildIdle
    /\ InitParseIdle
    /\ InitFetchIdle
    /\ InitSearchIdle

\* a click on the button or on a bar inside it
ClickToggle ==
    /\ Len(clicks) < MaxClicks
    /\ \E target \in {t \in ClickTargets : ToggleContains(t)} : Click(target)

\* a click inside the panel
ClickLinks ==
    /\ Len(clicks) < MaxClicks
    /\ \E target \in {t \in ClickTargets : LinksContains(t)} : Click(target)

\* a click outside the button and the panel
ClickOutside ==
    /\ Len(clicks) < MaxClicks
    /\ \E target \in {t \in ClickTargets : ~ToggleContains(t) /\ ~LinksContains(t)} :
          Click(target)

NextNav == ClickToggle \/ ClickLinks \/ ClickOutside

SpecNav == InitNav /\ [][NextNav]_vars

(***************************************************************************)
(* Claims about the text functions (checked under SpecText).               *)
(***************************************************************************)
AllDigits(s) == s # EmptyStr /\ \A i \in 1..Len(s) : IsDigit(s[i])

IsNumericText(s) ==
    \/ AllDigits(s)
    \/ s # EmptyStr /\ s[1] \in {"-", "+"} /\ AllDigits(Tail(s))

HasWs(s) == \E i \in 1..Len(s) : IsWs(s[i])

PlainOfInput == cleanDescription(stripHtml(input))

WasCut == Len(PlainOfInput) > maxLen

\* C1: formatDuration renders a raw value that is an integer number of
\* seconds as "Hh Mm" from one hour on and as "M min" below, and returns
\* every raw value that is not numeric (such as "45 min") unchanged.
C1_FormatDurationLaw ==
    fn = "formatDuration" =>
        /\ AllDigits(input) =>
              LET v == DigitsValue(input, 10)
              IN output = IF v >= 3600
                          THEN NatToStr(v \div 3600) \o <<"h", " ">>
                               \o NatToStr((v % 3600) \div 60) \o <<"m">>
                          ELSE NatToStr(v \div 60) \o <<" ", "m", "i", "n">>
        /\ ~IsNumericText(input) => output = input

\* C2: truncate never splits a word (whenever it cuts, the
\* kept part ends where whitespace follows in the stripped, prefix-cleaned
\* text) and its output is at most maxLen + 3 characters long.
C2_TruncateNeverSplits ==
    fn = "truncate" =>
        /\ Len(output) <= maxLen + Len(Ellipsis)
        /\ WasCut =>
              LET k == Len(output) - Len(Ellipsis)
              IN /\ output = SubSeq(PlainOfInput, 1, k) \o Ellipsis
                 /\ IsWs(PlainOfInput[k + 1])

\* What truncate does guarantee: the output is at most maxLen + 3
\* characters long; when it cuts and the first maxLen characters of the
\* cleaned text hold whitespace, the kept part ends at the start of their
\* last whitespace run, a word end; when they hold none, the kept part is
\* exactly those maxLen characters.
TruncateWordBoundary ==
    fn = "truncate" =>
        /\ Len(output) <= maxLen + Len(Ellipsis)
        /\ WasCut =>
              LET k == Len(output) - Len(Ellipsis)
                  head == Substring0(PlainOfInput, maxLen)
              IN /\ output = SubSeq(PlainOfInput, 1, k) \o Ellipsis
                 /\ HasWs(head) =>
                       /\ IsWs(PlainOfInput[k + 1])
                       /\ k = 0 \/ ~IsWs(PlainOfInput[k])
                       /\ \A i \in (k + 1)..Len(head) :
                             IsWs(head[i]) \/ ~HasWs(SubSeq(head, i, Len(head)))
                 /\ ~HasWs(head) => k = maxLen

\* a cut in a text with whitespace before the cut, keeping at least a word
TruncateWordBoundaryCase ==
    /\ fn = "truncate"
    /\ WasCut
    /\ HasWs(Substring0(PlainOfInput, maxLen))
    /\ Len(output) > Len(Ellipsis)

\* C3 (as stated): when stripHtml(text) has at most maxLen characters,
\* truncate returns exactly stripHtml(text).
C3_ShortTextIsStripped ==
    fn = "truncate" /\ Len(stripHtml(input)) <= maxLen
        => output = stripHtml(input)

\* C3 (amended): when stripHtml(text) has at most maxLen characters,
\* truncate returns stripHtml(text) with the fan-mail prefix removed
\* (cleanDescription), without an ellipsis.
C3_ShortTextIsCleaned ==
    fn = "truncate" /\ Len(stripHtml(input)) <= maxLen
        => output = cleanDescription(stripHtml(input))

\* a short text with markup that starts with the fan-mail prefix
C3_Witness ==
    /\ fn = "truncate"
    /\ Len(stripHtml(input)) <= maxLen
    /\ stripHtml(input) # input
    /\ cleanDescription(stripHtml(input)) # stripHtml(input)
    /\ output # EmptyStr

(***************************************************************************)
(* Claims about parseEpisode (checked under SpecParse).                    *)
(***************************************************************************)
\* the raw title: the text of the title tag
RawTitle == getCDATA(item.title)

\* the raw title starts with k digits and a dot
HasNumberPrefix(k) ==
    /\ k \in 1..(Len(RawTitle) - 1)
    /\ AllDigits(SubSeq(RawTitle, 1, k))
    /\ RawTitle[k + 1] = "."

\* C11: the episode number is the itunes:episode value when that is not
\* empty, else the digits of a leading "<digits>." of the raw title, else
\* empty; the display title is the raw title without a leading run of
\* digits, its dot and the whitespace after the dot, whether or not the
\* number came from itunes:episode, and the raw title when there is no such
\* prefix.
C11_NumberAndTitle ==
    \A ep \in Range(parsed) :
        /\ item.episode # EmptyStr => ep.episode = item.episode
        /\ \A k \in 1..Len(RawTitle) :
              HasNumberPrefix(k) =>
                  /\ item.episode = EmptyStr => ep.episode = SubSeq(RawTitle, 1, k)
                  /\ ep.title = TrimStart(Drop(RawTitle, k + 1))
        /\ (~\E k \in 1..Len(RawTitle) : HasNumberPrefix(k)) =>
              /\ item.episode = EmptyStr => ep.episode = EmptyStr
              /\ ep.title = RawTitle

\* an item with an itunes:episode value and a numbered title, parsed
C11_Witness ==
    /\ parsed # << >>
    /\ item.episode # EmptyStr
    /\ \E k \in 1..Len(RawTitle) : HasNumberPrefix(k)
    /\ parsed[1].title # RawTitle
    /\ parsed[1].title # EmptyStr

(***************************************************************************)
(* Claims about the build (checked under Spec).                            *)
(***************************************************************************)
\* this run has parsed and sorted the feed
Sorted == \E k \in 1..Len(steps) : steps[k] = Step("parse", "none")

PagesWritten == {tree.pages[f] : f \in DOMAIN tree.pages}

\* C4: in the sorted collection an episode with a greater number (an
\* unparsable one counting as 0) stands before one with a smaller number,
\* and of two episodes with equal numbers the one published later stands
\* first, whatever the document order of the feed.
C4_SortLaw ==
    Sorted =>
        \A i, j \in 1..Len(episodes) :
            i < j =>
                LET a == episodes[i]
                    b == episodes[j]
                IN /\ EpisodeNumber(a) >= EpisodeNumber(b)
                   /\ EpisodeNumber(a) = EpisodeNumber(b) /\ ~a.date.nan /\ ~b.date.nan
                         => a.date.val >= b.date.val

IsIoError(s) == s.err \in {"fetch", "fs"}

\* C5 (as stated): every fetch or filesystem-write error ends the build at
\* once: the failing step is the last step and the exit code is non-zero.
C5_AnyErrorAborts ==
    \A k \in 1..Len(steps) :
        IsIoError(steps[k]) => k = Len(steps) /\ pc = "failed" /\ exitCode > 0

\* C5 (amended): an error of the feed fetch or of a page or directory
\* write ends the build at once with exit code 1; an error of the artwork
\* download or artwork write is caught, and the build goes on to the pages.
C5_FatalErrorsAbort ==
    \A k \in 1..Len(steps) :
        IsIoError(steps[k]) =>
            IF steps[k].step = "artwork"
            THEN k = Len(steps) => pc = "index" /\ exitCode = -1
            ELSE k = Len(steps) /\ pc = "failed" /\ exitCode = 1

\* an artwork error followed by pages, then a failing episode-page write
C5_Witness ==
    /\ pc = "failed"
    /\ \E k \in 1..Len(steps) : steps[k].step = "artwork" /\ IsIoError(steps[k])
    /\ steps[Len(steps)] = Step("page", "fs")
    /\ DOMAIN tree.pages # {}

Entities == {EntAmp, EntLt, EntGt, EntQuot}

\* text in which <, > and " do not occur and every & starts an entity
IsEscaped(s) ==
    \A i \in 1..Len(s) :
        /\ s[i] \notin {"<", ">", "\""}
        /\ s[i] = "&" => \E e \in Entities : StartsWith(Drop(s, i - 1), e)

CardEscaped(c) == IsEscaped(c.alt) /\ IsEscaped(c.title) /\ IsEscaped(c.desc)

SidebarEscaped(sb) == \A i \in 1..Len(sb) : IsEscaped(sb[i].title)

\* C6: every episode title and description that a written page holds
\* outside the show notes is HTML-escaped.
C6_FeedTextEscaped ==
    /\ \A h \in Range(tree.index) :
          /\ IsEscaped(h.hero.title) /\ IsEscaped(h.hero.desc)
          /\ \A i \in 1..Len(h.grid) : CardEscaped(h.grid[i])
          /\ SidebarEscaped(h.sidebar)
    /\ \A l \in Range(tree.episodes) :
          \A i \in 1..Len(l.grid) : CardEscaped(l.grid[i])
    /\ \A pg \in PagesWritten :
          /\ IsEscaped(pg.headTitle) /\ IsEscaped(pg.metaDesc)
          /\ IsEscaped(pg.ogTitle) /\ IsEscaped(pg.title) /\ IsEscaped(pg.imgAlt)
          /\ SidebarEscaped(pg.sidebar)

\* C7: the page of the episode at index i links "previous" to the episode
\* at index i + 1 and "next" to the one at index i - 1, and has no link
\* where that index is outside the collection.
C7_NavByIndex ==
    Sorted =>
        \A pg \in PagesWritten :
            /\ pg.prev = NavLink(episodes, pg.of + 1)
            /\ pg.next = NavLink(episodes, pg.of - 1)

\* C8 (as stated): the page of an episode without an item image shows the
\* channel's artwork URL of the podcast metadata.
C8_FallbackIsChannelUrl ==
    Sorted =>
        \A pg \in PagesWritten :
            episodes[pg.of].episodeImage = "" => pg.imgSrc = podcastMeta.image

\* C8 (amended): the page of an episode without an item image shows the
\* local copy of the podcast artwork, ../images/podcast-artwork.jpg (and
\* images/podcast-artwork.jpg as og:image), not the channel's URL.
C8_FallbackIsLocalArtwork ==
    Sorted =>
        \A pg \in PagesWritten :
            episodes[pg.of].episodeImage = "" =>
                /\ pg.imgSrc = "../images/podcast-artwork.jpg"
                /\ pg.ogImage = "images/podcast-artwork.jpg"

\* the page of an episode without an image, in a feed with channel artwork
C8_Witness ==
    /\ Sorted
    /\ podcastMeta.image = ChannelArt
    /\ \E pg \in PagesWritten : episodes[pg.of].episodeImage = ""

IsHeroOf(hero, ep) ==
    /\ hero.label = NumberLabel(ep)
    /\ hero.title = escapeHtml(ep.title)
    /\ hero.href = EpisodeHref("episodes/", ep)

\* the cards of episodes[from..to], cut to the collection
CardsOf(from, to) ==
    LET last == IF to < Len(episodes) THEN to ELSE Len(episodes)
    IN [i \in 1..(IF last < from THEN 0 ELSE last - from + 1) |->
          episodeCardHTML(episodes[from + i - 1])]

\* C9 (as stated): the hero is the first episode of the collection and the
\* grid shows the six episodes after it.
C9_GridIsNextSix ==
    Sorted =>
        \A h \in Range(tree.index) :
            /\ IsHeroOf(h.hero, episodes[1])
            /\ h.grid = CardsOf(2, 7)

\* C9 (amended): the hero is the first episode of the collection and the
\* grid shows the first six episodes, the hero's among them (fewer when
\* the collection is shorter).
C9_GridIsFirstSix ==
    Sorted =>
        \A h \in Range(tree.index) :
            /\ IsHeroOf(h.hero, episodes[1])
            /\ h.grid = CardsOf(1, 6)

\* a home page of a collection longer than the grid
C9_Witness == tree.index # << >> /\ Len(episodes) > 6

\* C10: with one episode the hero is that episode, the grid holds exactly
\* its card, and its page has neither a previous nor a next link.
C10_SingleEpisode ==
    Len(episodes) = 1 =>
        /\ \A h \in Range(tree.index) :
              /\ IsHeroOf(h.hero, episodes[1])
              /\ Len(h.grid) = 1
              /\ h.grid[1] = episodeCardHTML(episodes[1])
        /\ \A pg \in PagesWritten : ~pg.prev.present /\ ~pg.next.present

\* a finished build of a one-episode feed
C10_Witness ==
    /\ Len(episodes) = 1
    /\ pc = "done"
    /\ tree.index # << >>
    /\ PagesWritten # {}

\* C12: a second run on the unchanged feed that finds the artwork file in
\* place leaves the output tree exactly as the first run left it, the
\* artwork file included, and does not download the artwork.
C12_SecondRunIdentical ==
    runNo = 2 /\ afterFirst.artworkFile /\ pc = "done" =>
        /\ tree = afterFirst.tree
        /\ artworkFile
        /\ \A k \in 1..Len(steps) : steps[k].step # "artwork"

\* a finished second run on a feed with channel artwork and episodes,
\* the artwork file in place when it started
C12_Witness ==
    /\ runNo = 2
    /\ pc = "done"
    /\ afterFirst.artworkFile
    /\ podcastMeta.image = ChannelArt
    /\ Len(episodes) > 1
    /\ steps # << >>

\* the maximal runs of a-z and 0-9 in s, in order
RECURSIVE AlnumWords(_)
AlnumWords(s) ==
    IF s = EmptyStr THEN << >>
    ELSE IF ~IsAlnumLower(s[1]) THEN AlnumWords(Tail(s))
    ELSE LET n == Max({k \in 1..Len(s) : \A i \in 1..k : IsAlnumLower(s[i])})
         IN <<SubSeq(s, 1, n)>> \o AlnumWords(SubSeq(s, n + 1, Len(s)))

RECURSIVE JoinHyphen(_)
JoinHyphen(words) ==
    IF words = << >> THEN EmptyStr
    ELSE IF Len(words) = 1 THEN words[1]
    ELSE words[1] \o <<"-">> \o JoinHyphen(Tail(words))

\* the file name, without .html, the claim gives an episode: its number,
\* or the alphanumeric words of its lowercased display title with a hyphen
\* between them
NumberOrSlug(ep) ==
    IF ep.episode # EmptyStr THEN ep.episode
    ELSE JoinHyphen(AlnumWords(toLowerCase(ep.title)))

\* C14: after a successful build the episodes directory holds, for every
\* episode of the collection, the file named by its number, or by the slug
\* of its display title when it has no number, and no other file.
C14_OneFilePerEpisode ==
    pc = "done" =>
        DOMAIN tree.pages = {NumberOrSlug(episodes[i]) : i \in 1..Len(episodes)}

\* a finished build of a feed with a numbered episode and an unnumbered
\* one whose title holds more than one word
C14_Witness ==
    /\ pc = "done"
    /\ \E i, j \in 1..Len(episodes) :
          /\ episodes[i].episode # EmptyStr
          /\ episodes[j].episode = EmptyStr
          /\ Len(AlnumWords(toLowerCase(episodes[j].title))) > 1
          /\ NumberOrSlug(episodes[j]) \in DOMAIN tree.pages

\* the last episode of the collection that is given the file name f
LastNamed(f) == Max({i \in 1..Len(episodes) : NumberOrSlug(episodes[i]) = f})

\* C16: episodes that resolve to the same file name do not make the build
\* fail; after the build the file holds the detail page of the last of
\* them in the order of the sorted collection.
C16_LastWriteWins ==
    /\ \A k \in 1..Len(steps) : steps[k].err = "type" => episodes = << >>
    /\ pc = "done" =>
          \A f \in DOMAIN tree.pages :
              tree.pages[f] = generateEpisodePage(LastNamed(f), episodes)

\* a finished first run in which two different episodes share a file
\* name, and the file holds the page of the later one
C16_Witness ==
    /\ pc = "done"
    /\ runNo = 1
    /\ \E i, j \in 1..Len(episodes) :
          /\ i < j
          /\ NumberOrSlug(episodes[i]) = NumberOrSlug(episodes[j])
          /\ episodes[i].fullTitle # episodes[j].fullTitle
          /\ tree.pages[NumberOrSlug(episodes[i])].of = j

\* the link names a file of the episodes directory, and that file is the
\* page of the episode at index i
LinksTo(href, i) ==
    /\ href.stem \in DOMAIN tree.pages
    /\ tree.pages[href.stem].of = i

\* C17: after a successful build every link to an episode page (the hero
\* button, the cards of the home and episodes pages, the sidebar lists, the
\* previous and next links) names a file the build wrote for the episode
\* the link was rendered from.
C17_LinksResolve ==
    pc = "done" =>
        /\ \A h \in Range(tree.index) :
              /\ LinksTo(h.hero.href, 1)
              /\ \A i \in 1..Len(h.grid) : LinksTo(h.grid[i].href, i)
              /\ \A i \in 1..Len(h.sidebar) : LinksTo(h.sidebar[i].href, i)
        /\ \A l \in Range(tree.episodes) :
              \A i \in 1..Len(l.grid) : LinksTo(l.grid[i].href, i)
        /\ \A pg \in PagesWritten :
              /\ \A i \in 1..Len(pg.sidebar) : LinksTo(pg.sidebar[i].href, i)
              /\ pg.prev.present =>
                    LinksTo(pg.prev.href, PrevIndex(EpIndex(episodes[pg.of], episodes)))
              /\ pg.next.present =>
                    LinksTo(pg.next.href, NextIndex(EpIndex(episodes[pg.of], episodes)))

\* the steps of this run after the feed was fetched and parsed
FileSteps == SubSeq(steps, 3, Len(steps))

\* the steps that follow the artwork step, in the order of build()
StepsAfterArtwork ==
    <<"index", "episodes", "about", "mkdir">> \o [i \in 1..Len(episodes) |-> "page"]

\* the number of steps with this name that went through
Succeeded(name) ==
    Cardinality({k \in 1..Len(FileSteps) : FileSteps[k] = Step(name, "none")})

\* the steps come in the fixed order
InBuildOrder ==
    /\ Len(FileSteps) <= 1 + Len(StepsAfterArtwork)
    /\ Len(FileSteps) >= 1 => FileSteps[1].step \in {"artwork", "artworkSkip"}
    /\ \A k \in 2..Len(FileSteps) : FileSteps[k].step = StepsAfterArtwork[k - 1]

\* in a first run, what the output directory holds is what the steps that
\* went through have written: the pages of the first episodes, in order
PrefixPersisted ==
    runNo = 1 =>
        /\ tree.index # << >> <=> Succeeded("index") = 1
        /\ tree.episodes # << >> <=> Succeeded("episodes") = 1
        /\ tree.about # << >> <=> Succeeded("about") = 1
        /\ DOMAIN tree.pages =
              {NumberOrSlug(episodes[i]) : i \in 1..Succeeded("page")}

\* C18 (as stated): the steps come in the fixed order artwork, index.html,
\* episodes.html, about.html, the episode pages in collection order; a
\* step that fails is the last step, so that no write follows it, and
\* everything before it is on disk.
C18_AnyFailureStops ==
    Sorted =>
        /\ InBuildOrder
        /\ PrefixPersisted
        /\ \A k \in 1..Len(FileSteps) :
              FileSteps[k].err # "none" => k = Len(FileSteps) /\ pc = "failed"

\* C18 (amended): the steps come in that fixed order and everything
\* before a failure is on disk; a failing write of a page or of the
\* episodes directory is the last step; a failing artwork download or
\* artwork write is not: the build goes on to index.html after it.
C18_PageFailureStops ==
    Sorted =>
        /\ InBuildOrder
        /\ PrefixPersisted
        /\ \A k \in 1..Len(FileSteps) :
              FileSteps[k].err # "none" =>
                  IF FileSteps[k].step = "artwork"
                  THEN k = 1 /\ (Len(FileSteps) = 1 => pc = "index")
                  ELSE k = Len(FileSteps) /\ pc = "failed"

\* a first run that downloaded the artwork, wrote the three pages and two
\* episode pages, and failed on the third
C18_Witness ==
    /\ runNo = 1
    /\ pc = "failed"
    /\ Sorted
    /\ FileSteps[1] = Step("artwork", "none")
    /\ Succeeded("page") = 2
    /\ FileSteps[Len(FileSteps)] = Step("page", "fs")

\* C19: with a feed without items the build gets no further than the
\* rendering of the home page: it ends there with exit code 1, and none
\* of index.html, episodes.html, about.html and the episode pages is
\* written.
C19_EmptyFeedFails ==
    Sorted /\ episodes = << >> =>
        /\ pc \in {"artwork", "index", "failed"}
        /\ exitCode # 0
        /\ pc = "failed" =>
              /\ exitCode = 1
              /\ steps[Len(steps)] = Step("index", "type")
        /\ tree = EmptyTree(FALSE)

\* the failed build of a feed that has channel artwork and no item
C19_Witness ==
    /\ rss.items = << >>
    /\ rss.image = ChannelArt
    /\ Sorted
    /\ pc = "failed"
    /\ exitCode = 1

(***************************************************************************)
(* Claims about fetchURL and fetchBinary (checked under SpecFetch and      *)
(* SpecFetchFair).                                                         *)
(***************************************************************************)
Settled == promise.state # "pending"

\* the callback has run on an HTTP response and settled the promise
SettledOnResponse == Settled /\ response.kind = "http"

IsSuccess(status) == status >= 200 /\ status < 300

\* C13 (as stated): no redirect with a Location settles the promise; a
\* success (2xx) response resolves it with the whole body; any other
\* status rejects it with an error that carries the status and the URL.
C13_StatusContract ==
    SettledOnResponse =>
        /\ ~IsRedirect(response)
        /\ IsSuccess(response.status) /\ response.complete
              => promise = Resolved(BodyAt(url))
        /\ ~IsSuccess(response.status) =>
              /\ promise.state = "rejected"
              /\ promise.error.name = "http"
              /\ promise.error.status = response.status
              /\ promise.error.urls \in {<<url>>, <<requested>>}

\* C13 (amended): no redirect with a Location settles the promise; a 200
\* response resolves it with the whole body; every other status, 2xx
\* other than 200 and 3xx without Location included, rejects it with an
\* error that carries the status, and that names the URL of the request
\* that got the response (the last redirect target, not the URL first
\* asked for) in fetchURL and no URL in fetchBinary.
C13_Only200Resolves ==
    SettledOnResponse =>
        /\ ~IsRedirect(response)
        /\ response.status = 200 /\ response.complete
              => promise = Resolved(BodyAt(url))
        /\ response.status # 200 =>
              /\ promise.state = "rejected"
              /\ promise.error.name = "http"
              /\ promise.error.status = response.status
              /\ promise.error.urls = IF fetcher = "fetchURL" THEN <<url>> ELSE << >>

\* fetchBinary rejected on a 204 that a redirect led to
C13_Witness ==
    /\ fetcher = "fetchBinary"
    /\ url # requested
    /\ SettledOnResponse
    /\ response.status = 204
    /\ promise.state = "rejected"

\* C20: every call of fetchURL or fetchBinary eventually settles, whatever
\* redirects the servers answer with.
C20_EventuallySettles == <>Settled

(***************************************************************************)
(* Claims about the episode search (checked under SpecSearch).             *)
(***************************************************************************)
\* the search box's value lowercased and trimmed
Query == Trim(toLowerCase(searchValue))

\* text holds q at some place when case is ignored
ContainsIgnoringCase(text, q) ==
    \E i \in 1..(Len(text) - Len(q) + 1) :
        toLowerCase(SubSeq(text, i, i + Len(q) - 1)) = q

Visible(card) == card.display # "none"

\* C15: on the page as rendered and after every input event on the search
\* box, each card is visible exactly when the query (the value lowercased
\* and trimmed) is empty or occurs in the card's title or description text
\* with case ignored, and the placeholder is shown exactly when no card is
\* visible.
C15_SearchFilter ==
    /\ \A i \in 1..Len(cards) :
          Visible(cards[i]) <=>
              \/ Query = EmptyStr
              \/ ContainsIgnoringCase(cards[i].title, Query)
              \/ ContainsIgnoringCase(cards[i].desc, Query)
    /\ noResults # "absent" =>
          (noResults # "none" <=> \A i \in 1..Len(cards) : ~Visible(cards[i]))

\* a query in capitals with a blank that hides one card on its description
\* match and shows another, the placeholder hidden
C15_Witness ==
    /\ searchValue = <<"B", "C", " ">>
    /\ noResults = "none"
    /\ \E i, j \in 1..Len(cards) :
          /\ ~Visible(cards[i])
          /\ Visible(cards[j])
          /\ ~ContainsIgnoringCase(cards[j].title, Query)

(***************************************************************************)
(* Claims about the mobile navigation (checked under SpecNav).             *)
(***************************************************************************)
\* the toggle has been clicked at least once
ToggleClicked == \E i \in 1..Len(clicks) : ToggleContains(clicks[i])

\* C21: once the toggle has been clicked, after any sequence of clicks on
\* the toggle and outside the toggle and the panel, the aria-expanded
\* attribute of the toggle says whether the panel has the class "open".
C21_AriaMatchesOpen ==
    ToggleClicked => ariaExpanded = BooleanString(navOpen)

====
